---- MODULE Spec2Model ----
(***************************************************************************)
(* The hunt progression logic of the scavenger-hunt app: the Firestore      *)
(* collections written by lib/database-service.ts (playerHunts, checkIns,   *)
(* locations, conditions) and the HuntDetailPlayer screen that drives them  *)
(* (loadHuntData, handleStartHunt, handleCheckIn, confirmAbandonHunt).      *)
(*                                                                         *)
(* One player plays one hunt from up to two devices; every device runs its  *)
(* own HuntDetailPlayer screen.  Every awaited Firestore call of a handler  *)
(* is one step, so calls of different devices interleave at the awaits.     *)
(* A device runs one handler at a time.  Times of day are minutes since     *)
(* midnight (the "HH:MM" strings of the code, which it compares in their    *)
(* zero-padded form, i.e. in numeric order).  Positions lie on one          *)
(* meridian and are measured in decimetres along it, where the haversine    *)
(* distance of calculateDistance is the absolute difference.                *)
(*                                                                         *)
(* The owner of the hunt authors it from other devices: the hunts list      *)
(* (handleCreateHunt), the hunt's detail screen (handleSaveEdit,            *)
(* confirmDeleteHunt, handleVisibilityToggle) and the condition editor of   *)
(* a location (handleSaveCondition, confirmDeleteCondition), which write    *)
(* the hunts, locations and conditions collections.                         *)
(***************************************************************************)
EXTENDS Integers, Sequences, FiniteSets, TLC

\* ------------------------------------------------------------------ bounds
\* Gestures of the player over all devices (open screen, start, check in, abandon).
MaxGestures == 5
\* Firestore calls that fail (network error, timeout).
MaxFaults == 1
\* Hours the clock advances.
MaxTicks == 2
\* Edits of the hunt by its owner while it is played.
MaxOwnerOps == 1
\* Checkpoints of the largest hunt whose progress is computed.
MaxCheckpoints == 40
\* Checkpoints of the largest hunt that is played to its last checkpoint.
MaxHuntSize == 250

\* ------------------------------------------------------------ the universe
Sessions == {"d1", "d2"}
\* Checkpoints the hunt is authored with, and the ones its owner adds later
\* (document ids are never used twice: the n-th edit of the owner creates
\* the n-th of them).
AuthoredLocIds == {"A", "B", "C"}
AddedLocIds == <<"D", "E", "F">>
LocIds == AuthoredLocIds \cup {AddedLocIds[i] : i \in DOMAIN AddedLocIds}
\* Document ids of the conditions collection; a new document gets the
\* first one that is free.
ConditionIds == {1, 2, 3}
UserId == "u1"
HuntId == "h1"
NoVal == "null"
\* null where a document is expected, undefined where a time or a position is.
NoPlayerHunt == [playerHuntId |-> 0, userId |-> NoVal, huntId |-> NoVal,
                 status |-> NoVal, completionTime |-> NoVal]
NoCheckIn == [checkInId |-> 0, userId |-> NoVal, huntId |-> NoVal, locationId |-> NoVal]
NoTime == 0 - 1
NoPosition == 0 - 1
\* The user who authored the hunt; UserId plays it.
OwnerId == "u2"
\* Document ids of the hunts collection: the played hunt's, and the ids
\* createHunt gives out (the first one that is free).
NewHuntIds == <<"h2">>
HuntIds == {HuntId} \cup {NewHuntIds[i] : i \in DOMAIN NewHuntIds}
\* The devices on which hunts are authored.
OwnerSessions == {"o1", "o2"}
\* Hunt names are strings over a letter and the blank, as typed into the
\* name field.
NoHunt == [id |-> NoVal, name |-> <<>>, userId |-> NoVal, isVisible |-> FALSE]
\* The hunt that is played, as its owner created and published it.
PlayedHunt == [id |-> HuntId, name |-> <<"a">>, userId |-> OwnerId, isVisible |-> TRUE]

\* Checkpoint coordinates, in decimetres along a meridian: B lies exactly
\* 50.0 m from A, and C lies 1 km from A; added checkpoints lie at A.
LocPos(l) == CASE l = "A" -> 0 [] l = "B" -> 500 [] l = "C" -> 10000 [] OTHER -> 0
\* Where the device can be when the screen asks for its position: at A, or
\* 50.1 m short of C.
PlayerPositions == {0, 9499}
\* UTC offsets of the device, in minutes (local = UTC + offset).
TzOffsets == {0, -300}
MinutesPerDay == 24 * 60
\* The clock starts at 08:00 local time and advances an hour at a time.
StartClock == 8 * 60
\* The daily window the owner may put on a checkpoint: 09:00 - 09:30 local.
WindowStart == 9 * 60
WindowEnd == 9 * 60 + 30

VARIABLES
    dbPlayerHunts,        \* playerHunts collection, in document-id (query) order
    dbCheckIns,           \* checkIns collection, in timestamp (creation) order
    dbLocations,          \* locationIds of the hunt's location documents
    dbConditions,         \* conditions collection (times stored in UTC)
    now,                  \* local time of day, minutes
    tz,                   \* UTC offset of the devices, minutes
    variant,              \* the file whose HuntDetailPlayer the devices run
    faultsLeft,           \* Firestore calls that may still fail
    gestures,             \* player gestures so far
    ownerOps,             \* owner edits so far
    pc,                   \* per device: where its screen's handler stands
    ret,                  \* per device: the handler that awaits loadHuntData
    hunt,                 \* screen state: hunt
    playerHunt,           \* screen state: playerHunt
    locations,            \* screen state: locations
    checkIns,             \* screen state: checkIns
    locationConditions,   \* screen state: locationConditions
    progress,             \* screen state: progress
    userLocation,         \* screen state: userLocation
    checkingInLocationId, \* screen state: checkingInLocationId
    renderedAt,           \* local time at which the screen rendered last
    hcPlayerHunt,         \* playerHunt captured by the running handleCheckIn
    atPress,              \* history: checkIns and playerHunts collections when the
                          \* running handleCheckIn was called
    alert,                \* the last Alert.alert of the screen
    error,                \* the error its handler caught last
    dbHunts,              \* hunts collection
    owner                 \* per authoring session: its user and its screen

dbVars == <<dbPlayerHunts, dbCheckIns, dbLocations, dbConditions>>
envVars == <<now, tz, variant, faultsLeft, gestures, ownerOps>>
screenVars == <<pc, ret, hunt, playerHunt, locations, checkIns, locationConditions,
                progress, userLocation, checkingInLocationId, renderedAt,
                hcPlayerHunt, atPress, alert, error>>
ownerVars == <<dbHunts, owner>>
vars == <<dbVars, envVars, screenVars, ownerVars>>

\* ------------------------------------------------------ time conversion
Mod(a, b) == a % b
\* "HH:MM" local -> "HH:MM:00" UTC of the same instant today.
convertLocalTimeToUTC(t) == Mod(t - tz, MinutesPerDay)
\* "HH:MM[:SS]" UTC -> "HH:MM" local.
convertUTCTimeToLocal(t) == Mod(t + tz, MinutesPerDay)

\* -------------------------------------------- database-service.ts: queries
\* getHuntById: the document with that id, or null.
getHuntById(huntId) ==
    IF \E h \in dbHunts : h.id = huntId
      THEN CHOOSE h \in dbHunts : h.id = huntId
      ELSE NoHunt

\* huntExistsForUser: the query on (userId, name) is not empty.
huntExistsForUser(huntName, userId) ==
    \E h \in dbHunts : h.userId = userId /\ h.name = huntName

\* getPlayerHunt with the query's second where() comparing huntId to the wrong argument.
getPlayerHuntWrongArgument(userId, huntId) ==
    LET docs == SelectSeq(dbPlayerHunts,
                          LAMBDA d : d.userId = userId /\ d.huntId = userId)
    IN  IF docs = <<>> THEN NoPlayerHunt ELSE docs[1]

\* getPlayerHunt: the first document of the query on (userId, huntId), or null.
getPlayerHunt(userId, huntId) ==
    LET docs == SelectSeq(dbPlayerHunts,
                          LAMBDA d : d.userId = userId /\ d.huntId = huntId)
    IN  IF docs = <<>> THEN NoPlayerHunt ELSE docs[1]

\* getCheckIn with the query's last where() comparing locationId to the wrong argument.
getCheckInWrongArgument(userId, huntId, locationId) ==
    LET docs == SelectSeq(dbCheckIns,
                          LAMBDA d : /\ d.userId = userId
                                     /\ d.huntId = huntId
                                     /\ d.locationId = huntId)
    IN  IF docs = <<>> THEN NoCheckIn ELSE docs[1]

\* getCheckIn: the first document of the query on (userId, huntId, locationId), or null.
getCheckIn(userId, huntId, locationId) ==
    LET docs == SelectSeq(dbCheckIns,
                          LAMBDA d : /\ d.userId = userId
                                     /\ d.huntId = huntId
                                     /\ d.locationId = locationId)
    IN  IF docs = <<>> THEN NoCheckIn ELSE docs[1]

\* getHuntCheckIns: the player's check-ins of the hunt, by timestamp.
getHuntCheckIns(userId, huntId) ==
    SelectSeq(dbCheckIns, LAMBDA d : d.userId = userId /\ d.huntId = huntId)

\* getHuntLocations: the location documents of the hunt.
getHuntLocations(huntId) == IF huntId = HuntId THEN dbLocations ELSE {}

\* The documents of a query snapshot, in the order of their ids.
RECURSIVE InIdOrder(_)
InIdOrder(docs) ==
    IF docs = {} THEN <<>>
    ELSE LET first == CHOOSE d \in docs : \A e \in docs : d.conditionId <= e.conditionId
         IN  <<first>> \o InIdOrder(docs \ {first})

\* The condition getLocationConditions pushes for a document: TIME_WINDOW
\* times converted from the stored UTC to local time.
LocalCondition(c) ==
    IF c.type = "TIME_WINDOW"
      THEN [c EXCEPT !.startTime = convertUTCTimeToLocal(c.startTime),
                     !.endTime = convertUTCTimeToLocal(c.endTime)]
      ELSE c

\* getLocationConditions: the conditions of a location, in snapshot order.
getLocationConditions(locationId) ==
    LET docs == InIdOrder({ d \in dbConditions : d.locationId = locationId })
    IN  [i \in DOMAIN docs |-> LocalCondition(docs[i])]

\* ------------------------------------------------------ Number arithmetic
\* A positive Number is an IEEE 754 double with a significand of 53 bits.  It
\* is held as sig, the significand in five digits of 13 bits (the first digit
\* is the leading 1), and exp, the binary exponent of its last bit: its value
\* is (sig[1] * 2^52 + sig[2] * 2^39 + ... + sig[5]) * 2^exp.
SignificandBits == 53
DigitBits == 13
Digits == 1 + (SignificandBits - 1) \div DigitBits

RECURSIVE Pow2(_)
Pow2(n) == IF n = 0 THEN 1 ELSE 2 * Pow2(n - 1)

Radix == Pow2(DigitBits)

\* The carry out of digit i of a digit sequence whose digits may exceed the radix.
RECURSIVE CarryOut(_, _)
CarryOut(digits, i) ==
    IF i > Len(digits) THEN 0 ELSE (digits[i] + CarryOut(digits, i + 1)) \div Radix

\* The element of a set of one element: e bound to a name as a value.
The(S) == CHOOSE x \in S : TRUE

\* A function on 1 .. Digits as the sequence of its values.
AsDigits(f) == SubSeq(f, 1, Digits)

\* The digit sequence with its carries propagated (the first digit keeps its own).
Propagate(digits) ==
    AsDigits([i \in 1 .. Digits |->
                 IF i = 1 THEN digits[1] + CarryOut(digits, 2)
                 ELSE (digits[i] + CarryOut(digits, i + 1)) % Radix])

\* The number the first n digits of a digit sequence denote.
RECURSIVE DigitsValue(_, _)
DigitsValue(digits, n) ==
    IF n <= 0 THEN 0 ELSE Radix * DigitsValue(digits, n - 1) + digits[n]

\* The double with significand sig and exponent exp, or the next one above it
\* when the rounding goes up; 2^53 is 2^52 with the exponent raised.
Rounded(sig, up, exp) ==
    LET next == Propagate(AsDigits([i \in 1 .. Digits |->
                                      IF i = Digits THEN sig[i] + 1 ELSE sig[i]]))
    IN  IF ~ up THEN [sig |-> sig, exp |-> exp]
        ELSE IF next[1] = 2
          THEN [sig |-> AsDigits([i \in 1 .. Digits |-> IF i = 1 THEN 1 ELSE 0]),
                exp |-> exp + 1]
          ELSE [sig |-> next, exp |-> exp]

\* The e with 2^e <= c / t < 2^(e + 1), for positive integers c and t.
RECURSIVE ExponentOf(_, _)
ExponentOf(c, t) ==
    IF c >= 2 * t THEN ExponentOf(c, 2 * t) + 1
    ELSE IF c < t THEN ExponentOf(2 * c, t) - 1
    ELSE 0

\* Long division of r by d, for r < d < 2^18: the remainder after n digits of
\* the quotient.
RECURSIVE QuotientRest(_, _, _)
QuotientRest(r, d, n) ==
    IF n = 0 THEN r ELSE (QuotientRest(r, d, n - 1) * Radix) % d

\* c / t of two positive integers (which are doubles exactly): the quotient
\* 1.xxx * 2^e by long division, rounded to nearest, ties to even.
Divide(c, t) ==
    LET e == ExponentOf(c, t)
        n == IF e < 0 THEN c * Pow2(0 - e) ELSE c
        d == IF e > 0 THEN t * Pow2(e) ELSE t
        rest == QuotientRest(n - d, d, Digits - 1)
        half == 2 * rest >= d
        more == (2 * rest) % d # 0
    IN  The({ Rounded(sig, half /\ (more \/ sig[Digits] % 2 = 1),
                      e - (SignificandBits - 1)) :
              sig \in { AsDigits([i \in 1 .. Digits |->
                           IF i = 1 THEN 1
                           ELSE (QuotientRest(n - d, d, i - 2) * Radix) \div d]) } })

\* The number of bits of a positive integer.
RECURSIVE BitLength(_)
BitLength(n) == IF n = 0 THEN 0 ELSE 1 + BitLength(n \div 2)

\* x * 100: the exact product, then its leading 53 bits rounded to nearest,
\* ties to even.
Times100(x) ==
    The({ LET drop == BitLength(product[1]) - 1
              dropped == product[Digits] % Pow2(drop)
              half == Pow2(drop - 1)
          IN  The({ Rounded(sig,
                            dropped > half \/ (dropped = half /\ sig[Digits] % 2 = 1),
                            x.exp + drop) :
                    sig \in { AsDigits([i \in 1 .. Digits |->
                                 IF i = 1 THEN product[1] \div Pow2(drop)
                                 ELSE product[i] \div Pow2(drop)
                                        + (product[i - 1] % Pow2(drop))
                                             * Pow2(DigitBits - drop)]) } }) :
          product \in { Propagate(AsDigits([i \in 1 .. Digits |-> 100 * x.sig[i]])) } })

\* Math.round of a positive double below 2^26: the nearest integer, a half
\* rounds up.  It is (h + 1) div 2 for h the integer part of twice the value.
MathRound(x) ==
    LET shift == 0 - (x.exp + 1)
        twice == DigitsValue(x.sig, Digits - shift \div DigitBits)
                    \div Pow2(shift % DigitBits)
    IN  (twice + 1) \div 2

\* Math.round((completed / total) * 100), for total > 0.
RoundPercent(completed, total) ==
    IF completed = 0 THEN 0
    ELSE The({ MathRound(product) :
               product \in { Times100(quotient) :
                             quotient \in { Divide(completed, total) } } })

\* getHuntProgress: total locations, number of check-in documents, percentage.
getHuntProgress(userId, huntId) ==
    LET total == Cardinality(getHuntLocations(huntId))
        completed == Len(getHuntCheckIns(userId, huntId))
    IN  [completed |-> completed,
         total |-> total,
         percentage |-> IF total > 0 THEN RoundPercent(completed, total) ELSE 0]

\* -------------------------------------------- database-service.ts: writes
\* The document startPlayerHunt adds; n is the ordinal of the document.
NewPlayerHunt(n, userId, huntId) ==
    [playerHuntId |-> n, userId |-> userId, huntId |-> huntId,
     status |-> "STARTED", completionTime |-> NoVal]

\* A new document lands anywhere in the query order: its id is a random auto-id.
InsertAt(seq, i, d) == SubSeq(seq, 1, i - 1) \o <<d>> \o SubSeq(seq, i, Len(seq))

\* The document createCheckIn adds.
NewCheckIn(n, userId, huntId, locationId) ==
    [checkInId |-> n, userId |-> userId, huntId |-> huntId, locationId |-> locationId]

\* updatePlayerHuntStatus: the collection after updateDoc on the document.
updatePlayerHuntStatus(playerHuntId, status, setCompletionTime) ==
    [i \in DOMAIN dbPlayerHunts |->
        IF dbPlayerHunts[i].playerHuntId = playerHuntId
          THEN [dbPlayerHunts[i] EXCEPT
                  !.status = status,
                  !.completionTime = IF setCompletionTime /\ status = "COMPLETED"
                                       THEN "serverTimestamp" ELSE @]
          ELSE dbPlayerHunts[i]]

\* The document createCondition adds: TIME_WINDOW times go from local to UTC.
NewCondition(n, locationId, type, requiredLocationId, startTime, endTime) ==
    [conditionId |-> n, locationId |-> locationId, type |-> type,
     requiredLocationId |-> requiredLocationId,
     startTime |-> IF type = "TIME_WINDOW" /\ startTime # NoTime
                     THEN convertLocalTimeToUTC(startTime) ELSE startTime,
     endTime |-> IF type = "TIME_WINDOW" /\ endTime # NoTime
                   THEN convertLocalTimeToUTC(endTime) ELSE endTime]

\* deleteAllLocationConditions: the conditions left after the location's are deleted.
deleteAllLocationConditions(locationId) ==
    { c \in dbConditions : c.locationId # locationId }

\* ------------------------------------------ HuntDetailPlayer: pure helpers
\* The two files that define the HuntDetailPlayer screen.
Variants == {"part_006", "part_007"}
\* 0.0001 degrees of latitude is 11.12 m: the whole decimetres below it.
FourDecimalsOfDegree == 111
Abs(x) == IF x < 0 THEN -x ELSE x
\* calculateDistance: the great-circle distance, in decimetres, of two points
\* of the meridian.
calculateDistance(p, q) == Abs(p - q)

\* isUserNearLocation.  part_007: a known position within 50 m of the
\* location.  part_006: a known position whose latitude and longitude both
\* differ from the location's by less than 0.0001 degrees (on the meridian
\* the longitudes are equal).
isUserNearLocation(s, l) ==
    /\ userLocation[s] # NoPosition
    /\ IF variant = "part_006"
         THEN Abs(userLocation[s] - LocPos(l)) <= FourDecimalsOfDegree
         ELSE calculateDistance(userLocation[s], LocPos(l)) <= 50 * 10

\* isLocationCompleted that counts check-ins only while the hunt is STARTED.
isLocationCompletedWhileStarted(s, l) ==
    /\ playerHunt[s].status = "STARTED"
    /\ \E i \in DOMAIN checkIns[s] : checkIns[s][i].locationId = l

\* isLocationCompleted: the screen's checkIns hold one for the location.
isLocationCompleted(s, l) ==
    \E i \in DOMAIN checkIns[s] : checkIns[s][i].locationId = l

\* The conditions the screen holds for a location: none when it loaded none.
ScreenConditions(s, l) ==
    IF l \in DOMAIN locationConditions[s] THEN locationConditions[s][l] ELSE <<>>

\* The loop's test of one condition when the REQUIRED_LOCATION branch looks
\* for a check-in at the condition's own location.
ConditionPassesOwnLocation(s, c, t) ==
    /\ c.type = "REQUIRED_LOCATION" =>
          \E i \in DOMAIN checkIns[s] : checkIns[s][i].locationId = c.locationId
    /\ c.type = "TIME_WINDOW" =>
          ~ (\/ t < convertUTCTimeToLocal(c.startTime)
             \/ t > convertUTCTimeToLocal(c.endTime))

\* The loop's test of one condition without its REQUIRED_LOCATION branch.
ConditionPassesWindowOnly(s, c, t) ==
    c.type = "TIME_WINDOW" =>
       ~ (\/ t < convertUTCTimeToLocal(c.startTime)
          \/ t > convertUTCTimeToLocal(c.endTime))

\* One condition of isLocationAvailable's loop, evaluated at local time t.  The
\* loop converts the times of the loaded condition with convertUTCTimeToLocal.
ConditionPasses(s, c, t) ==
    /\ c.type = "REQUIRED_LOCATION" =>
          \E i \in DOMAIN checkIns[s] : checkIns[s][i].locationId = c.requiredLocationId
    /\ c.type = "TIME_WINDOW" =>
          ~ (\/ t < convertUTCTimeToLocal(c.startTime)
             \/ t > convertUTCTimeToLocal(c.endTime))

\* isLocationAvailable with "return true" moved into the loop body: it returns
\* after the first condition.
isLocationAvailableFirstOnly(s, l, t) ==
    LET conditions == ScreenConditions(s, l)
    IN  IF Len(conditions) = 0 THEN TRUE ELSE ConditionPasses(s, conditions[1], t)

\* isLocationAvailable's loop from the i-th condition on: false at the first
\* condition that does not pass, true when the list is exhausted.
RECURSIVE AvailableFrom(_, _, _, _)
AvailableFrom(s, conditions, i, t) ==
    IF i > Len(conditions) THEN TRUE
    ELSE IF ~ ConditionPasses(s, conditions[i], t) THEN FALSE
    ELSE AvailableFrom(s, conditions, i + 1, t)

\* isLocationAvailable at local time t, over the conditions the screen holds.
isLocationAvailable(s, l, t) == AvailableFrom(s, ScreenConditions(s, l), 1, t)

\* getLocationStatusText at local time t.
getLocationStatusText(s, l, t) ==
    IF isLocationCompleted(s, l) THEN "Completed"
    ELSE IF isLocationAvailable(s, l, t) THEN "Available"
    ELSE "Locked"

\* renderLocationItem: canCheckIn, as of the last render.
canCheckIn(s, l) ==
    /\ isLocationAvailable(s, l, renderedAt[s])
    /\ ~ isLocationCompleted(s, l)
    /\ isUserNearLocation(s, l)
    /\ playerHunt[s] # NoPlayerHunt

\* The Abandon button is rendered for a STARTED playerHunt.
canAbandon(s) == playerHunt[s] # NoPlayerHunt /\ playerHunt[s].status = "STARTED"

\* ------------------------------------------------------------------- Init
NoProgress == [completed |-> 0, total |-> 0, percentage |-> 0]
NoSnapshot == <<<<>>, <<>>>>

\* The hunts the owner has authored before the player opens one: one, two or
\* three checkpoints; B may carry one condition (as createCondition stores it).
AuthoredHunts ==
    { [locations |-> {"A"}, conditions |-> {}],
      [locations |-> {"A", "B"}, conditions |-> {}],
      [locations |-> {"A", "B"}, conditions |->
          { NewCondition(1, "B", "REQUIRED_LOCATION", "A", NoTime, NoTime) }],
      [locations |-> {"A", "B"}, conditions |->
          { NewCondition(1, "B", "TIME_WINDOW", NoVal, WindowStart, WindowEnd) }],
      [locations |-> {"A", "B", "C"}, conditions |-> {}],
      [locations |-> {"A", "B", "C"}, conditions |->
          { NewCondition(1, "B", "REQUIRED_LOCATION", "A", NoTime, NoTime) }] }

\* An authoring session before anybody signs in on it; alert is the title of
\* the screen's last Alert.alert.
SignedOut == [pc |-> "out", user |-> NoVal, hunt |-> NoHunt, name |-> <<>>,
              alert |-> NoVal, locationId |-> NoVal, availableLocations |-> {}]

\* No screen is open; the hunts collection holds the hunt that is played.
InitScreens ==
    /\ dbHunts = {PlayedHunt}
    /\ owner = [o \in OwnerSessions |-> SignedOut]
    /\ now = StartClock
    /\ gestures = 0
    /\ ownerOps = 0
    /\ pc = [s \in Sessions |-> "closed"]
    /\ ret = [s \in Sessions |-> NoVal]
    /\ hunt = [s \in Sessions |-> NoVal]
    /\ playerHunt = [s \in Sessions |-> NoPlayerHunt]
    /\ locations = [s \in Sessions |-> {}]
    /\ checkIns = [s \in Sessions |-> <<>>]
    /\ locationConditions = [s \in Sessions |-> <<>>]
    /\ progress = [s \in Sessions |-> NoProgress]
    /\ userLocation = [s \in Sessions |-> NoPosition]
    /\ checkingInLocationId = [s \in Sessions |-> NoVal]
    /\ renderedAt = [s \in Sessions |-> StartClock]
    /\ hcPlayerHunt = [s \in Sessions |-> NoPlayerHunt]
    /\ atPress = [s \in Sessions |-> NoSnapshot]
    /\ alert = [s \in Sessions |-> NoVal]
    /\ error = [s \in Sessions |-> NoVal]

\* Nobody plays yet and no screen is open.
InitPlay ==
    /\ dbPlayerHunts = <<>>
    /\ dbCheckIns = <<>>
    /\ InitScreens

Init ==
    /\ tz \in TzOffsets
    /\ variant = "part_007"
    /\ \E h \in AuthoredHunts :
          /\ dbLocations = h.locations
          /\ dbConditions = h.conditions
    /\ faultsLeft = MaxFaults
    /\ InitPlay

\* ------------------------------------------------------- storage failures
\* A Firestore call succeeds (ok) or throws; the failures are bounded.
Storage(ok) ==
    /\ ok \/ faultsLeft > 0
    /\ faultsLeft' = IF ok THEN faultsLeft ELSE faultsLeft - 1

\* Every setState of a screen renders it again, at the current time.
Render(s) == renderedAt' = [renderedAt EXCEPT ![s] = now]

\* ------------------------------------------------- mounting and loadHuntData
\* The screen mounts: fresh state, the effect starts loadHuntData, and
\* requestLocationPermission stores the device's position (none when refused).
Open(s) ==
    /\ pc[s] = "closed"
    /\ gestures < MaxGestures
    /\ gestures' = gestures + 1
    /\ \E p \in PlayerPositions \cup {NoPosition} :
          userLocation' = [userLocation EXCEPT ![s] = p]
    /\ pc' = [pc EXCEPT ![s] = "ld_hunt"]
    /\ ret' = [ret EXCEPT ![s] = "mount"]
    /\ hunt' = [hunt EXCEPT ![s] = NoVal]
    /\ playerHunt' = [playerHunt EXCEPT ![s] = NoPlayerHunt]
    /\ locations' = [locations EXCEPT ![s] = {}]
    /\ checkIns' = [checkIns EXCEPT ![s] = <<>>]
    /\ locationConditions' = [locationConditions EXCEPT ![s] = <<>>]
    /\ progress' = [progress EXCEPT ![s] = NoProgress]
    /\ checkingInLocationId' = [checkingInLocationId EXCEPT ![s] = NoVal]
    /\ hcPlayerHunt' = [hcPlayerHunt EXCEPT ![s] = NoPlayerHunt]
    /\ alert' = [alert EXCEPT ![s] = NoVal]
    /\ error' = [error EXCEPT ![s] = NoVal]
    /\ Render(s)
    /\ UNCHANGED <<dbVars, now, tz, variant, ownerVars, faultsLeft, ownerOps, atPress>>

\* loadHuntData returns (its catch swallowed any failure): the handler that
\* awaited it goes on.  handleStartHunt then alerts success; handleCheckIn
\* goes on to getHuntProgress.
EndLoad(s, failed) ==
    /\ pc' = [pc EXCEPT ![s] = IF ret[s] = "checkin" THEN "ci_prog" ELSE "idle"]
    /\ ret' = [ret EXCEPT ![s] = NoVal]
    /\ alert' = [alert EXCEPT ![s] =
                   IF ret[s] = "start" THEN "Hunt started! Good luck!"
                   ELSE IF failed THEN "Failed to load hunt details" ELSE @]
    /\ UNCHANGED error

\* A load step goes on to the next one.
NextLoad(s, step) ==
    /\ pc' = [pc EXCEPT ![s] = step]
    /\ UNCHANGED <<ret, alert, error>>

\* getHuntById, setHunt
LoadHunt(s) ==
    /\ pc[s] = "ld_hunt"
    /\ \E ok \in BOOLEAN :
          /\ Storage(ok)
          /\ IF ok
               THEN /\ hunt' = [hunt EXCEPT ![s] =
                                  IF getHuntById(HuntId) # NoHunt THEN HuntId ELSE NoVal]
                    /\ NextLoad(s, "ld_ph")
               ELSE /\ UNCHANGED hunt
                    /\ EndLoad(s, TRUE)
    /\ Render(s)
    /\ UNCHANGED <<dbVars, now, tz, variant, ownerVars, gestures, ownerOps, playerHunt, locations, checkIns,
                   locationConditions, progress, userLocation, checkingInLocationId,
                   hcPlayerHunt, atPress>>

\* getPlayerHunt, setPlayerHunt
LoadPlayerHunt(s) ==
    /\ pc[s] = "ld_ph"
    /\ \E ok \in BOOLEAN :
          /\ Storage(ok)
          /\ IF ok
               THEN /\ playerHunt' = [playerHunt EXCEPT ![s] = getPlayerHunt(UserId, HuntId)]
                    /\ NextLoad(s, "ld_locs")
               ELSE /\ UNCHANGED playerHunt
                    /\ EndLoad(s, TRUE)
    /\ Render(s)
    /\ UNCHANGED <<dbVars, now, tz, variant, ownerVars, gestures, ownerOps, locations, checkIns,
                   locationConditions, progress, userLocation, hunt, checkingInLocationId,
                   hcPlayerHunt, atPress>>

\* getHuntLocations, setLocations; the rest is loaded only for a player hunt.
LoadLocations(s) ==
    /\ pc[s] = "ld_locs"
    /\ \E ok \in BOOLEAN :
          /\ Storage(ok)
          /\ IF ok
               THEN /\ locations' = [locations EXCEPT ![s] = getHuntLocations(HuntId)]
                    /\ IF playerHunt[s] # NoPlayerHunt
                         THEN NextLoad(s, "ld_cis") ELSE EndLoad(s, FALSE)
               ELSE /\ UNCHANGED locations
                    /\ EndLoad(s, TRUE)
    /\ Render(s)
    /\ UNCHANGED <<dbVars, now, tz, variant, ownerVars, gestures, ownerOps, playerHunt, checkIns,
                   locationConditions, progress, userLocation, hunt, checkingInLocationId,
                   hcPlayerHunt, atPress>>

\* getHuntCheckIns, setCheckIns
LoadCheckIns(s) ==
    /\ pc[s] = "ld_cis"
    /\ \E ok \in BOOLEAN :
          /\ Storage(ok)
          /\ IF ok
               THEN /\ checkIns' = [checkIns EXCEPT ![s] = getHuntCheckIns(UserId, HuntId)]
                    /\ NextLoad(s, "ld_prog")
               ELSE /\ UNCHANGED checkIns
                    /\ EndLoad(s, TRUE)
    /\ Render(s)
    /\ UNCHANGED <<dbVars, now, tz, variant, ownerVars, gestures, ownerOps, playerHunt, locations,
                   locationConditions, progress, userLocation, hunt, checkingInLocationId,
                   hcPlayerHunt, atPress>>

\* getHuntProgress, setProgress
LoadProgress(s) ==
    /\ pc[s] = "ld_prog"
    /\ \E ok \in BOOLEAN :
          /\ Storage(ok)
          /\ IF ok
               THEN /\ progress' = [progress EXCEPT ![s] = getHuntProgress(UserId, HuntId)]
                    /\ NextLoad(s, "ld_conds")
               ELSE /\ UNCHANGED progress
                    /\ EndLoad(s, TRUE)
    /\ Render(s)
    /\ UNCHANGED <<dbVars, now, tz, variant, ownerVars, gestures, ownerOps, playerHunt, locations, checkIns,
                   locationConditions, userLocation, hunt, checkingInLocationId, hcPlayerHunt,
                   atPress>>

\* loadLocationConditions: getLocationConditions per location; a failing call
\* is logged and its location gets no entry.  loadHuntData then returns.
loadLocationConditions(s) ==
    /\ pc[s] = "ld_conds"
    /\ \E failing \in (IF faultsLeft = 0 THEN {{}} ELSE SUBSET locations[s]) :
          /\ Cardinality(failing) <= faultsLeft
          /\ faultsLeft' = faultsLeft - Cardinality(failing)
          /\ locationConditions' = [locationConditions EXCEPT ![s] =
                [l \in locations[s] \ failing |-> getLocationConditions(l)]]
    /\ EndLoad(s, FALSE)
    /\ Render(s)
    /\ UNCHANGED <<dbVars, now, tz, variant, ownerVars, gestures, ownerOps, playerHunt, locations, checkIns,
                   progress, userLocation, hunt, checkingInLocationId, hcPlayerHunt, atPress>>

\* --------------------------------------------------------- handleStartHunt
\* A handler's catch: it alerts and the handler is over.
Caught(s, message, err) ==
    /\ pc' = [pc EXCEPT ![s] = "idle"]
    /\ alert' = [alert EXCEPT ![s] = message]
    /\ error' = [error EXCEPT ![s] = err]

\* The Start button is pressed (rendered while the screen holds the hunt and
\* no playerHunt);
\* startPlayerHunt reads getPlayerHunt and throws when it finds a document.
handleStartHunt(s) ==
    /\ pc[s] = "idle"
    /\ hunt[s] # NoVal
    /\ playerHunt[s] = NoPlayerHunt
    /\ gestures < MaxGestures
    /\ gestures' = gestures + 1
    /\ \E ok \in BOOLEAN :
          /\ Storage(ok)
          /\ IF ~ ok
               THEN Caught(s, "Failed to start hunt. Please try again.", "storage")
               ELSE IF getPlayerHunt(UserId, HuntId) # NoPlayerHunt
                 THEN Caught(s, "Failed to start hunt. Please try again.",
                             "Hunt already started by this player")
                 ELSE /\ pc' = [pc EXCEPT ![s] = "st_write"]
                      /\ alert' = [alert EXCEPT ![s] = NoVal]
                      /\ error' = [error EXCEPT ![s] = NoVal]
    /\ Render(s)
    /\ UNCHANGED <<dbVars, now, tz, variant, ownerVars, ownerOps, ret, playerHunt, locations, checkIns,
                   locationConditions, progress, userLocation, hunt, checkingInLocationId,
                   hcPlayerHunt, atPress>>

\* startPlayerHunt, after the await: addDoc of the STARTED document; then
\* handleStartHunt reloads the screen.
startPlayerHunt(s) ==
    /\ pc[s] = "st_write"
    /\ \E ok \in BOOLEAN :
          /\ Storage(ok)
          /\ IF ok
               THEN /\ \E i \in 1 .. Len(dbPlayerHunts) + 1 :
                         dbPlayerHunts' =
                            InsertAt(dbPlayerHunts, i,
                                     NewPlayerHunt(Len(dbPlayerHunts) + 1, UserId, HuntId))
                    /\ pc' = [pc EXCEPT ![s] = "ld_hunt"]
                    /\ ret' = [ret EXCEPT ![s] = "start"]
                    /\ UNCHANGED <<alert, error>>
               ELSE /\ Caught(s, "Failed to start hunt. Please try again.", "storage")
                    /\ UNCHANGED <<dbPlayerHunts, ret>>
    /\ Render(s)
    /\ UNCHANGED <<dbCheckIns, dbLocations, dbConditions, now, tz, variant, ownerVars,
                   gestures, ownerOps, playerHunt, locations, checkIns,
                   locationConditions, progress, userLocation, hunt, checkingInLocationId,
                   hcPlayerHunt, atPress>>

\* ----------------------------------------------------------- handleCheckIn
\* handleCheckIn is over: finally clears checkingInLocationId.
EndCheckIn(s) ==
    /\ checkingInLocationId' = [checkingInLocationId EXCEPT ![s] = NoVal]
    /\ hcPlayerHunt' = [hcPlayerHunt EXCEPT ![s] = NoPlayerHunt]
    /\ atPress' = [atPress EXCEPT ![s] = NoSnapshot]

\* The Check In button of a location is pressed (rendered when canCheckIn).
\* Too far: an alert and nothing else.  Otherwise createCheckIn reads
\* getCheckIn and throws when it finds a document.
handleCheckIn(s, l) ==
    /\ pc[s] = "idle"
    /\ hunt[s] # NoVal
    /\ l \in locations[s]
    /\ canCheckIn(s, l)
    /\ gestures < MaxGestures
    /\ gestures' = gestures + 1
    /\ IF ~ isUserNearLocation(s, l)
         THEN /\ Caught(s, "Too Far", NoVal)
              /\ UNCHANGED <<faultsLeft, checkingInLocationId, hcPlayerHunt, atPress>>
         ELSE \E ok \in BOOLEAN :
                /\ Storage(ok)
                /\ IF ~ ok
                     THEN /\ Caught(s, "Failed to check in. Please try again.", "storage")
                          /\ EndCheckIn(s)
                     ELSE IF getCheckIn(UserId, HuntId, l) # NoCheckIn
                       THEN /\ Caught(s, "Failed to check in. Please try again.",
                                      "Already checked in to this location")
                            /\ EndCheckIn(s)
                       ELSE /\ pc' = [pc EXCEPT ![s] = "ci_write"]
                            /\ alert' = [alert EXCEPT ![s] = NoVal]
                            /\ error' = [error EXCEPT ![s] = NoVal]
                            /\ checkingInLocationId' =
                                  [checkingInLocationId EXCEPT ![s] = l]
                            /\ hcPlayerHunt' = [hcPlayerHunt EXCEPT ![s] = playerHunt[s]]
                            /\ atPress' = [atPress EXCEPT ![s] =
                                              <<dbCheckIns, dbPlayerHunts>>]
    /\ Render(s)
    /\ UNCHANGED <<dbVars, now, tz, variant, ownerVars, ownerOps, ret, playerHunt, locations, checkIns,
                   locationConditions, progress, userLocation, hunt>>

\* createCheckIn, after the await: addDoc of the check-in document; then
\* handleCheckIn reloads the screen.
createCheckIn(s) ==
    /\ pc[s] = "ci_write"
    /\ \E ok \in BOOLEAN :
          /\ Storage(ok)
          /\ IF ok
               THEN /\ dbCheckIns' =
                         Append(dbCheckIns,
                                NewCheckIn(Len(dbCheckIns) + 1, UserId, HuntId,
                                           checkingInLocationId[s]))
                    /\ pc' = [pc EXCEPT ![s] = "ld_hunt"]
                    /\ ret' = [ret EXCEPT ![s] = "checkin"]
                    /\ UNCHANGED <<alert, error, checkingInLocationId, hcPlayerHunt, atPress>>
               ELSE /\ Caught(s, "Failed to check in. Please try again.", "storage")
                    /\ EndCheckIn(s)
                    /\ UNCHANGED <<dbCheckIns, ret>>
    /\ Render(s)
    /\ UNCHANGED <<dbPlayerHunts, dbLocations, dbConditions, now, tz, variant, ownerVars,
                   gestures, ownerOps, playerHunt, locations, checkIns,
                   locationConditions, progress, userLocation, hunt>>

\* handleCheckIn after the reload: getHuntProgress; at 100 % and with the
\* playerHunt its closure holds, it goes on to write COMPLETED.
checkInProgress(s) ==
    /\ pc[s] = "ci_prog"
    /\ \E ok \in BOOLEAN :
          /\ Storage(ok)
          /\ IF ~ ok
               THEN /\ Caught(s, "Failed to check in. Please try again.", "storage")
                    /\ EndCheckIn(s)
               ELSE IF /\ getHuntProgress(UserId, HuntId).percentage = 100
                       /\ hcPlayerHunt[s] # NoPlayerHunt
                 THEN /\ pc' = [pc EXCEPT ![s] = "ci_status"]
                      /\ UNCHANGED <<alert, error, checkingInLocationId, hcPlayerHunt, atPress>>
                 ELSE /\ Caught(s, "Location completed!", NoVal)
                      /\ EndCheckIn(s)
    /\ Render(s)
    /\ UNCHANGED <<dbVars, now, tz, variant, ownerVars, gestures, ownerOps, ret, playerHunt, locations,
                   checkIns, locationConditions, progress, userLocation, hunt>>

\* updatePlayerHuntStatus(playerHuntId, 'COMPLETED', true) of handleCheckIn.
checkInComplete(s) ==
    /\ pc[s] = "ci_status"
    /\ \E ok \in BOOLEAN :
          /\ Storage(ok)
          /\ IF ok
               THEN /\ dbPlayerHunts' =
                         updatePlayerHuntStatus(hcPlayerHunt[s].playerHuntId,
                                                "COMPLETED", TRUE)
                    /\ Caught(s, "You have completed the hunt!", NoVal)
               ELSE /\ Caught(s, "Failed to check in. Please try again.", "storage")
                    /\ UNCHANGED dbPlayerHunts
    /\ EndCheckIn(s)
    /\ Render(s)
    /\ UNCHANGED <<dbCheckIns, dbLocations, dbConditions, now, tz, variant, ownerVars,
                   gestures, ownerOps, ret, playerHunt, locations, checkIns,
                   locationConditions, progress, userLocation, hunt>>

\* ------------------------------------------------------ confirmAbandonHunt
\* Abandon is confirmed (the button is rendered for a STARTED playerHunt):
\* updatePlayerHuntStatus(playerHuntId, 'ABANDONED'), then router.back()
\* leaves the screen.
confirmAbandonHunt(s) ==
    /\ pc[s] = "idle"
    /\ hunt[s] # NoVal
    /\ canAbandon(s)
    /\ gestures < MaxGestures
    /\ gestures' = gestures + 1
    /\ \E ok \in BOOLEAN :
          /\ Storage(ok)
          /\ IF ok
               THEN /\ dbPlayerHunts' =
                         updatePlayerHuntStatus(playerHunt[s].playerHuntId,
                                                "ABANDONED", FALSE)
                    /\ pc' = [pc EXCEPT ![s] = "closed"]
                    /\ alert' = [alert EXCEPT ![s] = NoVal]
                    /\ error' = [error EXCEPT ![s] = NoVal]
                    /\ hunt' = [hunt EXCEPT ![s] = NoVal]
                    /\ playerHunt' = [playerHunt EXCEPT ![s] = NoPlayerHunt]
                    /\ locations' = [locations EXCEPT ![s] = {}]
                    /\ checkIns' = [checkIns EXCEPT ![s] = <<>>]
                    /\ locationConditions' = [locationConditions EXCEPT ![s] = <<>>]
                    /\ progress' = [progress EXCEPT ![s] = NoProgress]
                    /\ userLocation' = [userLocation EXCEPT ![s] = NoPosition]
               ELSE /\ Caught(s, "Failed to abandon hunt", "storage")
                    /\ UNCHANGED <<dbPlayerHunts, playerHunt, locations, checkIns,
                                   locationConditions, progress, userLocation, hunt>>
    /\ Render(s)
    /\ UNCHANGED <<dbCheckIns, dbLocations, dbConditions, now, tz, variant, ownerVars,
                   ownerOps, ret, checkingInLocationId, hcPlayerHunt, atPress>>

\* -------------------------------------------------------- the environment
\* An hour passes.
Tick ==
    /\ now < StartClock + 60 * MaxTicks
    /\ now' = now + 60
    /\ UNCHANGED <<dbVars, tz, variant, ownerVars, faultsLeft, gestures, ownerOps, screenVars>>

\* The owner deletes a location: deleteLocation deletes its conditions, then
\* the location document (check-ins stay).
deleteLocation(l) ==
    /\ ownerOps < MaxOwnerOps
    /\ l \in dbLocations
    /\ ownerOps' = ownerOps + 1
    /\ dbConditions' = deleteAllLocationConditions(l)
    /\ dbLocations' = dbLocations \ {l}
    /\ UNCHANGED <<dbPlayerHunts, dbCheckIns, now, tz, variant, ownerVars, faultsLeft,
                   gestures, screenVars>>

\* The owner adds a location on the location screen: createLocation.
createLocation ==
    /\ ownerOps < MaxOwnerOps
    /\ ownerOps < Len(AddedLocIds)
    /\ getHuntById(HuntId) # NoHunt
    /\ ownerOps' = ownerOps + 1
    /\ dbLocations' = dbLocations \cup {AddedLocIds[ownerOps + 1]}
    /\ UNCHANGED <<dbPlayerHunts, dbCheckIns, dbConditions, now, tz, variant, ownerVars,
                   faultsLeft, gestures, screenVars>>

\* ----------------------------------------------------------- ConditionEdit
\* What no authoring step changes.
PlayUnchanged ==
    UNCHANGED <<dbPlayerHunts, dbCheckIns, now, tz, variant, faultsLeft, gestures, screenVars>>

\* A user signs in on an authoring device and sees the list of hunts.
signIn(o, u) ==
    /\ owner[o].pc = "out"
    /\ owner' = [owner EXCEPT ![o] = [SignedOut EXCEPT !.pc = "list", !.user = u]]
    /\ UNCHANGED <<dbHunts, dbLocations, dbConditions, ownerOps>>
    /\ PlayUnchanged

\* loadConditionData as the ConditionEdit screen of a location runs it: the
\* screen that results, or the alert with which it goes back.
ConditionScreen(o, l) ==
    LET huntData == getHuntById(HuntId)
    IN  IF huntData = NoHunt \/ huntData.userId # owner[o].user
          THEN [owner[o] EXCEPT !.pc = "list", !.alert = "Error",
                                !.locationId = NoVal, !.availableLocations = {}]
          ELSE IF l \notin dbLocations
            THEN [owner[o] EXCEPT !.pc = "list", !.alert = "Error",
                                  !.locationId = NoVal, !.availableLocations = {}]
            ELSE [owner[o] EXCEPT !.pc = "conditions", !.alert = NoVal,
                                  !.locationId = l,
                                  !.availableLocations = dbLocations \ {l}]

\* The ConditionEdit screen of a location is opened.
loadConditionData(o, l) ==
    /\ owner[o].pc = "list"
    /\ UNCHANGED <<dbHunts, dbLocations, dbConditions, ownerOps>>
    /\ owner' = [owner EXCEPT ![o] = ConditionScreen(o, l)]
    /\ PlayUnchanged

\* The owner goes back from the ConditionEdit screen.
leaveConditions(o) ==
    /\ owner[o].pc = "conditions"
    /\ owner' = [owner EXCEPT ![o].pc = "list", ![o].locationId = NoVal,
                              ![o].availableLocations = {}]
    /\ UNCHANGED <<dbHunts, dbLocations, dbConditions, ownerOps>>
    /\ PlayUnchanged


\* What the form of the screen can hold when Save is pressed: the picker
\* offers availableLocations; the form opens with the condition's own
\* requiredLocationId, or with none when there is no other location.
Forms(o, prefilled) ==
    LET offered == owner[o].availableLocations \cup (prefilled \ {NoVal})
    IN  { [type |-> "REQUIRED_LOCATION", requiredLocationId |-> r,
           startTime |-> NoTime, endTime |-> NoTime] :
             r \in (IF offered = {} THEN {NoVal} ELSE offered) }
        \cup
        { [type |-> "TIME_WINDOW", requiredLocationId |-> NoVal,
           startTime |-> w[1], endTime |-> w[2]] : w \in {<<WindowStart, WindowEnd>>, <<WindowEnd, WindowStart>>} }

validateForm(form) ==
    /\ form.type = "REQUIRED_LOCATION" => form.requiredLocationId # NoVal
    /\ form.type = "TIME_WINDOW" => form.startTime # NoTime /\ form.endTime # NoTime

\* updateCondition: the fields of the update that are defined replace the
\* document's; TIME_WINDOW times go from local to UTC.
updateCondition(c, form) ==
    [c EXCEPT !.type = form.type,
              !.requiredLocationId =
                  IF form.requiredLocationId # NoVal THEN form.requiredLocationId ELSE @,
              !.startTime =
                  IF form.startTime # NoTime THEN convertLocalTimeToUTC(form.startTime) ELSE @,
              !.endTime =
                  IF form.endTime # NoTime THEN convertLocalTimeToUTC(form.endTime) ELSE @]

\* Save on the form of a new condition (editing = 0) or of a listed one.
\* conditionData carries undefined for the fields its type does not use, and
\* the Firestore SDK rejects undefined field values unless it is set to
\* ignore them: the write goes through or throws.  After a write the screen
\* loads again.
handleSaveCondition(o, editing, form) ==
    /\ owner[o].pc = "conditions"
    /\ ownerOps < MaxOwnerOps
    /\ ownerOps' = ownerOps + 1
    /\ LET l == owner[o].locationId
           listed == { c \in dbConditions : c.locationId = l /\ c.conditionId = editing }
       IN  /\ editing = 0 \/ listed # {}
           /\ form \in Forms(o, { c.requiredLocationId : c \in listed })
           /\ IF ~ validateForm(form)
                THEN /\ owner' = [owner EXCEPT ![o].alert = "Error"]
                     /\ UNCHANGED dbConditions
                ELSE \E accepted \in BOOLEAN :
                       IF ~ accepted
                         THEN /\ owner' = [owner EXCEPT ![o].alert = "Error"]
                              /\ UNCHANGED dbConditions
                         ELSE /\ IF editing = 0
                                   THEN \E n \in ConditionIds :
                                          /\ \A c \in dbConditions : c.conditionId # n
                                          /\ \A m \in 1 .. (n - 1) :
                                                \E c \in dbConditions : c.conditionId = m
                                          /\ dbConditions' = dbConditions \cup
                                                { NewCondition(n, l, form.type,
                                                               form.requiredLocationId,
                                                               form.startTime, form.endTime) }
                                   ELSE dbConditions' =
                                          { IF c \in listed THEN updateCondition(c, form) ELSE c :
                                              c \in dbConditions }
                              /\ owner' = [owner EXCEPT ![o] =
                                    [ConditionScreen(o, l) EXCEPT !.alert = "Success"]]
    /\ UNCHANGED <<dbHunts, dbLocations>>
    /\ PlayUnchanged

\* Delete on a listed condition, confirmed: deleteCondition, then the screen
\* loads again.
confirmDeleteCondition(o, conditionId) ==
    /\ owner[o].pc = "conditions"
    /\ ownerOps < MaxOwnerOps
    /\ ownerOps' = ownerOps + 1
    /\ \E c \in dbConditions :
          /\ c.locationId = owner[o].locationId
          /\ c.conditionId = conditionId
          /\ dbConditions' = dbConditions \ {c}
    /\ owner' = [owner EXCEPT ![o] =
          [ConditionScreen(o, owner[o].locationId) EXCEPT !.alert = "Success"]]
    /\ UNCHANGED <<dbHunts, dbLocations>>
    /\ PlayUnchanged

\* ------------------------------------------------- hunts list, HuntDetail
\* String.prototype.trim: the blanks at both ends go.
RECURSIVE TrimStart(_)
TrimStart(str) ==
    IF str # <<>> /\ Head(str) = " " THEN TrimStart(Tail(str)) ELSE str

RECURSIVE TrimEnd(_)
TrimEnd(str) ==
    IF str # <<>> /\ str[Len(str)] = " "
      THEN TrimEnd(SubSeq(str, 1, Len(str) - 1)) ELSE str

Trim(str) == TrimEnd(TrimStart(str))

\* What is typed into a name field: up to two characters.
TypedNames == UNION { [1 .. n -> {"a", " "}] : n \in 0 .. 2 }
MaxNameLength == 255

\* The alert (its title) with which both name handlers turn an input down:
\* the name is empty or too long.
NameError(huntName) ==
    IF huntName = <<>> \/ Len(huntName) > MaxNameLength THEN "Error" ELSE NoVal

\* The first await of updateHuntName, updateHuntVisibility and deleteHunt
\* when it only tests that the hunt exists.
HuntAccessErrorFoundOnly(huntId, userId) ==
    IF getHuntById(huntId) = NoHunt THEN "Hunt not found" ELSE NoVal

\* The first await of updateHuntName, updateHuntVisibility and deleteHunt:
\* getHuntById and the two throws, or null when the call goes on.
HuntAccessError(huntId, userId) ==
    IF getHuntById(huntId) = NoHunt THEN "Hunt not found"
    ELSE IF getHuntById(huntId).userId # userId
      THEN "Unauthorized: Hunt does not belong to this user"
    ELSE NoVal

\* updateDoc of updateHuntName / updateHuntVisibility: the collection after it.
updateHuntName(huntId, newName) ==
    { IF h.id = huntId THEN [h EXCEPT !.name = newName] ELSE h : h \in dbHunts }

updateHuntVisibility(huntId, isVisible) ==
    { IF h.id = huntId THEN [h EXCEPT !.isVisible = isVisible] ELSE h : h \in dbHunts }

\* deleteAllHuntLocations: the location documents left (the documents of the
\* model all belong to HuntId).
deleteAllHuntLocations(huntId) == IF huntId = HuntId THEN {} ELSE dbLocations

\* handleCreateHunt up to its await: the trimmed name is validated, then
\* huntExistsForUser is asked.
handleCreateHunt(o, typed) ==
    /\ owner[o].pc = "list"
    /\ LET huntName == Trim(typed)
       IN  owner' = [owner EXCEPT ![o] =
              IF NameError(huntName) # NoVal
                THEN [@ EXCEPT !.alert = NameError(huntName)]
              ELSE IF huntExistsForUser(huntName, owner[o].user)
                THEN [@ EXCEPT !.alert = "Hunt Exists"]
              ELSE [@ EXCEPT !.pc = "create", !.name = huntName, !.alert = NoVal]]
    /\ UNCHANGED <<dbHunts, dbLocations, dbConditions, ownerOps>>
    /\ PlayUnchanged

\* createHunt: addDoc of the hunt, private, under a new document id.
createHunt(o) ==
    /\ owner[o].pc = "create"
    /\ \E i \in DOMAIN NewHuntIds :
          /\ getHuntById(NewHuntIds[i]) = NoHunt
          /\ \A j \in 1 .. (i - 1) : getHuntById(NewHuntIds[j]) # NoHunt
          /\ dbHunts' = dbHunts \cup
                { [id |-> NewHuntIds[i], name |-> owner[o].name, userId |-> owner[o].user,
                   isVisible |-> FALSE] }
    /\ owner' = [owner EXCEPT ![o].pc = "list", ![o].name = <<>>,
                              ![o].alert = "Success"]
    /\ UNCHANGED <<dbLocations, dbConditions, ownerOps>>
    /\ PlayUnchanged

\* handleVisibilityToggle of a listed hunt: updateHuntVisibility.
handleVisibilityToggle(o, huntId, currentVisibility) ==
    /\ owner[o].pc = "list"
    /\ LET err == HuntAccessError(huntId, owner[o].user)
       IN  IF err # NoVal
             THEN /\ owner' = [owner EXCEPT ![o].alert = "Error"]
                  /\ UNCHANGED dbHunts
             ELSE /\ dbHunts' = updateHuntVisibility(huntId, ~ currentVisibility)
                  /\ owner' = [owner EXCEPT ![o].alert = NoVal]
    /\ UNCHANGED <<dbLocations, dbConditions, ownerOps>>
    /\ PlayUnchanged

\* The HuntDetail screen of a hunt is opened: loadHuntDetails.
loadHuntDetails(o, huntId) ==
    /\ owner[o].pc = "list"
    /\ owner' = [owner EXCEPT ![o].pc = "detail", ![o].hunt = getHuntById(huntId),
                              ![o].name = getHuntById(huntId).name, ![o].alert = NoVal]
    /\ UNCHANGED <<dbHunts, dbLocations, dbConditions, ownerOps>>
    /\ PlayUnchanged

\* Back from HuntDetail to the list.
leaveDetail(o) ==
    /\ owner[o].pc = "detail"
    /\ owner' = [owner EXCEPT ![o].pc = "list", ![o].hunt = NoHunt, ![o].name = <<>>]
    /\ UNCHANGED <<dbHunts, dbLocations, dbConditions, ownerOps>>
    /\ PlayUnchanged

\* handleSaveEdit up to its await: the trimmed name is validated and compared
\* with the name the screen holds, then huntExistsForUser is asked.
handleSaveEdit(o, typed) ==
    /\ owner[o].pc = "detail"
    /\ owner[o].hunt # NoHunt
    /\ LET newName == Trim(typed)
       IN  owner' = [owner EXCEPT ![o] =
              IF NameError(newName) # NoVal
                THEN [@ EXCEPT !.alert = NameError(newName)]
              ELSE IF newName = owner[o].hunt.name
                THEN [@ EXCEPT !.alert = NoVal]
              ELSE IF huntExistsForUser(newName, owner[o].user)
                THEN [@ EXCEPT !.alert = "Hunt Exists"]
              ELSE [@ EXCEPT !.pc = "rename", !.name = newName, !.alert = NoVal]]
    /\ UNCHANGED <<dbHunts, dbLocations, dbConditions, ownerOps>>
    /\ PlayUnchanged

\* handleSaveEdit after the await: updateHuntName throws or writes.
saveEdit(o) ==
    /\ owner[o].pc = "rename"
    /\ LET err == HuntAccessError(owner[o].hunt.id, owner[o].user)
       IN  IF err # NoVal
             THEN /\ owner' = [owner EXCEPT ![o].pc = "detail", ![o].alert = "Error"]
                  /\ UNCHANGED dbHunts
             ELSE /\ dbHunts' = updateHuntName(owner[o].hunt.id, owner[o].name)
                  /\ owner' = [owner EXCEPT ![o].pc = "detail",
                                            ![o].hunt.name = owner[o].name,
                                            ![o].alert = "Success"]
    /\ UNCHANGED <<dbLocations, dbConditions, ownerOps>>
    /\ PlayUnchanged

\* confirmDeleteHunt calls deleteHunt, whose first await is the access test.
confirmDeleteHunt(o) ==
    /\ owner[o].pc = "detail"
    /\ owner[o].hunt # NoHunt
    /\ LET err == HuntAccessError(owner[o].hunt.id, owner[o].user)
       IN  owner' = [owner EXCEPT ![o] =
              IF err # NoVal THEN [@ EXCEPT !.alert = "Error"]
              ELSE [@ EXCEPT !.pc = "del_locs", !.alert = NoVal]]
    /\ UNCHANGED <<dbHunts, dbLocations, dbConditions, ownerOps>>
    /\ PlayUnchanged

\* deleteHunt, second await: deleteAllHuntLocations.
deleteHuntLocations(o) ==
    /\ owner[o].pc = "del_locs"
    /\ dbLocations' = deleteAllHuntLocations(owner[o].hunt.id)
    /\ owner' = [owner EXCEPT ![o].pc = "del_doc"]
    /\ UNCHANGED <<dbHunts, dbConditions, ownerOps>>
    /\ PlayUnchanged

\* deleteHunt, third await: deleteDoc of the hunt; the screen goes back to
\* the list.
deleteHunt(o) ==
    /\ owner[o].pc = "del_doc"
    /\ dbHunts' = { h \in dbHunts : h.id # owner[o].hunt.id }
    /\ owner' = [owner EXCEPT ![o].pc = "list", ![o].hunt = NoHunt, ![o].name = <<>>,
                              ![o].alert = NoVal]
    /\ UNCHANGED <<dbLocations, dbConditions, ownerOps>>
    /\ PlayUnchanged

\* --------------------------------------------------------- specifications
ScreenStep(s) ==
    \/ Open(s)
    \/ LoadHunt(s)
    \/ LoadPlayerHunt(s)
    \/ LoadLocations(s)
    \/ LoadCheckIns(s)
    \/ LoadProgress(s)
    \/ loadLocationConditions(s)
    \/ handleStartHunt(s)
    \/ startPlayerHunt(s)
    \/ \E l \in LocIds : handleCheckIn(s, l)
    \/ createCheckIn(s)
    \/ checkInProgress(s)
    \/ checkInComplete(s)
    \/ confirmAbandonHunt(s)

OwnerStep == \E l \in LocIds : deleteLocation(l)

\* Two devices whose handlers interleave at their awaits; the storage does not
\* fail and the hunt has two checkpoints and no conditions.
Next == \E s \in Sessions : ScreenStep(s)

InitConc ==
    /\ tz = 0
    /\ variant = "part_007"
    /\ dbLocations = {"A", "B"}
    /\ dbConditions = {}
    /\ faultsLeft = 0
    /\ InitPlay

Spec == InitConc /\ [][Next]_vars

\* No handler of another device is running.
Quiet(s) == \A t \in Sessions \ {s} : pc[t] \in {"closed", "idle"}

\* Two devices, one handler at a time: a handler runs to its end before the
\* next gesture on any device.
NextSeq ==
    \E s \in Sessions :
       \/ Quiet(s) /\ Open(s)
       \/ Quiet(s) /\ LoadHunt(s)
       \/ Quiet(s) /\ LoadPlayerHunt(s)
       \/ Quiet(s) /\ LoadLocations(s)
       \/ Quiet(s) /\ LoadCheckIns(s)
       \/ Quiet(s) /\ LoadProgress(s)
       \/ Quiet(s) /\ loadLocationConditions(s)
       \/ Quiet(s) /\ handleStartHunt(s)
       \/ Quiet(s) /\ startPlayerHunt(s)
       \/ Quiet(s) /\ \E l \in LocIds : handleCheckIn(s, l)
       \/ Quiet(s) /\ createCheckIn(s)
       \/ Quiet(s) /\ checkInProgress(s)
       \/ Quiet(s) /\ checkInComplete(s)
       \/ Quiet(s) /\ confirmAbandonHunt(s)

SpecSeq == Init /\ [][NextSeq]_vars

\* One device, while the clock runs and the owner edits the hunt.
OneDevice == {"d1"}
NextOne == (\E s \in OneDevice : ScreenStep(s)) \/ Tick \/ OwnerStep

SpecOne == Init /\ [][NextOne]_vars

\* One device running either file's screen, in UTC, while the clock runs and
\* the owner edits the hunt; the storage does not fail.
InitNear ==
    /\ tz = 0
    /\ variant \in Variants
    /\ \E h \in AuthoredHunts :
          /\ dbLocations = h.locations
          /\ dbConditions = h.conditions
    /\ faultsLeft = 0
    /\ InitPlay

SpecNear == InitNear /\ [][NextOne]_vars

\* One device in one of three time zones, while the clock runs and the owner
\* edits the hunt; the storage does not fail.  B carries two conditions (in
\* either order of their document ids), one daily window, or none.
CondOffsets == {0, -300, 330}
OfficeStart == 9 * 60
OfficeEnd == 17 * 60
NightStart == 22 * 60
NightEnd == 2 * 60
ConditionedHunts ==
    { [locations |-> {"A", "B"}, conditions |-> {}],
      [locations |-> {"A", "B"}, conditions |->
          { NewCondition(1, "B", "REQUIRED_LOCATION", "A", NoTime, NoTime),
            NewCondition(2, "B", "TIME_WINDOW", NoVal, OfficeStart, OfficeEnd) }],
      [locations |-> {"A", "B"}, conditions |->
          { NewCondition(1, "B", "TIME_WINDOW", NoVal, OfficeStart, OfficeEnd),
            NewCondition(2, "B", "REQUIRED_LOCATION", "A", NoTime, NoTime) }],
      [locations |-> {"A", "B"}, conditions |->
          { NewCondition(1, "B", "TIME_WINDOW", NoVal, OfficeStart, OfficeEnd) }],
      [locations |-> {"A", "B"}, conditions |->
          { NewCondition(1, "B", "TIME_WINDOW", NoVal, NightStart, NightEnd) }] }

InitCond ==
    /\ tz \in CondOffsets
    /\ variant = "part_007"
    /\ \E h \in ConditionedHunts :
          /\ dbLocations = h.locations
          /\ dbConditions = h.conditions
    /\ faultsLeft = 0
    /\ InitPlay

SpecCond == InitCond /\ [][NextOne]_vars

\* One device plays in UTC while the clock runs and, on one authoring device,
\* the hunt is edited: locations are added and deleted, conditions are
\* created, changed and deleted.  The storage does not fail.  The hunt has
\* two checkpoints, the second with a daily window.
EditStep(o) ==
    \/ signIn(o, OwnerId)
    \/ \E l \in AuthoredLocIds : loadConditionData(o, l)
    \/ leaveConditions(o)
    \/ \E editing \in {0} \cup ConditionIds :
          \E form \in Forms(o, { c.requiredLocationId : c \in dbConditions }) :
             handleSaveCondition(o, editing, form)
    \/ \E conditionId \in ConditionIds : confirmDeleteCondition(o, conditionId)

NextEdit ==
    \/ \E s \in OneDevice : ScreenStep(s)
    \/ Tick
    \/ OwnerStep
    \/ EditStep("o1")

InitEdit ==
    /\ tz = 0
    /\ variant = "part_007"
    /\ \E h \in AuthoredHunts :
          /\ h.locations = {"A", "B"}
          /\ \E c \in h.conditions : c.type = "TIME_WINDOW"
          /\ dbLocations = h.locations
          /\ dbConditions = h.conditions
    /\ faultsLeft = 0
    /\ InitPlay

SpecEdit == InitEdit /\ [][NextEdit]_vars

\* One device plays a hunt in which A requires B and B requires A, with or
\* without a third, free checkpoint (D, which lies at A), while the clock
\* runs and the owner may delete a location.  The storage does not fail.
InitCycle ==
    /\ tz = 0
    /\ variant = "part_007"
    /\ dbLocations \in {{"A", "B"}, {"A", "B", "D"}}
    /\ dbConditions =
          { NewCondition(1, "A", "REQUIRED_LOCATION", "B", NoTime, NoTime),
            NewCondition(2, "B", "REQUIRED_LOCATION", "A", NoTime, NoTime) }
    /\ faultsLeft = 0
    /\ InitPlay

SpecCycle == InitCycle /\ [][NextOne]_vars

\* A player who goes on playing: one device, opened where A, B and D are
\* within 50 m, on a hunt whose REQUIRED_LOCATION conditions form no cycle
\* and that has no TIME_WINDOW; the player starts the hunt and checks in and
\* does not abandon.  The storage does not fail, and a handler that can go on
\* goes on.
InitPlayOn ==
    /\ tz = 0
    /\ variant = "part_007"
    /\ \E h \in
          { [locations |-> {"A", "B"}, conditions |->
                { NewCondition(1, "B", "REQUIRED_LOCATION", "A", NoTime, NoTime) }],
            [locations |-> {"A", "B", "D"}, conditions |-> {}],
            [locations |-> {"A", "B", "D"}, conditions |->
                { NewCondition(1, "B", "REQUIRED_LOCATION", "A", NoTime, NoTime),
                  NewCondition(2, "D", "REQUIRED_LOCATION", "B", NoTime, NoTime) }],
            [locations |-> {"A", "B", "D"}, conditions |->
                { NewCondition(1, "A", "REQUIRED_LOCATION", "D", NoTime, NoTime),
                  NewCondition(2, "A", "REQUIRED_LOCATION", "B", NoTime, NoTime) }] } :
          /\ dbLocations = h.locations
          /\ dbConditions = h.conditions
    /\ faultsLeft = 0
    /\ InitPlay

NextPlayOn ==
    \E s \in OneDevice :
       \/ Open(s) /\ userLocation'[s] = LocPos("A")
       \/ LoadHunt(s)
       \/ LoadPlayerHunt(s)
       \/ LoadLocations(s)
       \/ LoadCheckIns(s)
       \/ LoadProgress(s)
       \/ loadLocationConditions(s)
       \/ handleStartHunt(s)
       \/ startPlayerHunt(s)
       \/ \E l \in LocIds : handleCheckIn(s, l)
       \/ createCheckIn(s)
       \/ checkInProgress(s)
       \/ checkInComplete(s)

SpecPlayOn == InitPlayOn /\ [][NextPlayOn]_vars /\ WF_vars(NextPlayOn)

\* One device plays and nothing else happens: the clock stands, the owner
\* is away, the storage does not fail.
NextSolo == \E s \in OneDevice : ScreenStep(s)

InitSolo ==
    /\ tz = 0
    /\ variant = "part_007"
    /\ \E h \in AuthoredHunts :
          /\ dbLocations = h.locations
          /\ dbConditions = h.conditions
    /\ faultsLeft = 0
    /\ InitPlay

SpecSolo == InitSolo /\ [][NextSolo]_vars

\* One device plays the hunt {A, B} while its owner adds and deletes
\* locations.  The storage does not fail.
NextResize ==
    \/ \E s \in OneDevice : ScreenStep(s)
    \/ OwnerStep
    \/ createLocation

SpecResize == InitConc /\ [][NextResize]_vars

\* The hunt is edited on one authoring device while nobody plays it:
\* locations are added and deleted, conditions created, changed and deleted.
NextAuthor ==
    \/ EditStep("o1")
    \/ OwnerStep
    \/ createLocation

InitAuthor ==
    /\ tz \in TzOffsets
    /\ variant = "part_007"
    /\ \E h \in AuthoredHunts :
          /\ dbLocations = h.locations
          /\ dbConditions = h.conditions
    /\ faultsLeft = 0
    /\ InitPlay

SpecAuthor == InitAuthor /\ [][NextAuthor]_vars

\* Two authoring devices, the first signed in as the owner of the played
\* hunt, the second as the owner or as the player: hunts are created, renamed, published, hidden and deleted,
\* and a location of the played hunt may be deleted.  B requires A.
HuntStep(o) ==
    \/ \E u \in (IF o = "o1" THEN {OwnerId} ELSE {OwnerId, UserId}) : signIn(o, u)
    \/ \E typed \in TypedNames : handleCreateHunt(o, typed)
    \/ createHunt(o)
    \/ \E huntId \in HuntIds : \E currentVisibility \in BOOLEAN :
          handleVisibilityToggle(o, huntId, currentVisibility)
    \/ \E huntId \in HuntIds : loadHuntDetails(o, huntId)
    \/ leaveDetail(o)
    \/ \E typed \in TypedNames : handleSaveEdit(o, typed)
    \/ saveEdit(o)
    \/ confirmDeleteHunt(o)
    \/ deleteHuntLocations(o)
    \/ deleteHunt(o)

NextOwner == (\E o \in OwnerSessions : HuntStep(o)) \/ OwnerStep

InitOwner ==
    /\ tz = 0
    /\ variant = "part_007"
    /\ dbLocations = {"A", "B"}
    /\ dbConditions = { NewCondition(1, "B", "REQUIRED_LOCATION", "A", NoTime, NoTime) }
    /\ faultsLeft = 0
    /\ InitPlay

SpecOwner == InitOwner /\ [][NextOwner]_vars

\* One device opens the screen of a hunt that is being played: the hunt has up
\* to MaxCheckpoints checkpoints (named by their ordinals) and no conditions,
\* and the player has checked in at the first few of them.  The storage does
\* not fail.
InitProgress ==
    /\ tz = 0
    /\ variant = "part_007"
    /\ \E total \in 0 .. MaxCheckpoints : \E completed \in 0 .. total :
          /\ dbLocations = 1 .. total
          /\ dbCheckIns = [i \in 1 .. completed |-> NewCheckIn(i, UserId, HuntId, i)]
    /\ dbConditions = {}
    /\ dbPlayerHunts = <<NewPlayerHunt(1, UserId, HuntId)>>
    /\ faultsLeft = 0
    /\ InitScreens

\* The screen mounts and loadHuntData runs.
NextProgress ==
    \E s \in OneDevice :
       \/ Open(s)
       \/ LoadHunt(s)
       \/ LoadPlayerHunt(s)
       \/ LoadLocations(s)
       \/ LoadCheckIns(s)
       \/ LoadProgress(s)
       \/ loadLocationConditions(s)

SpecProgress == InitProgress /\ [][NextProgress]_vars

\* One device opens the screen of a hunt of up to MaxHuntSize checkpoints in
\* which the player has one checkpoint left, or none.  The storage does not
\* fail.
InitLastCheckpoint ==
    /\ tz = 0
    /\ variant = "part_007"
    /\ \E total \in 1 .. MaxHuntSize : \E completed \in {total - 1, total} :
          /\ dbLocations = 1 .. total
          /\ dbCheckIns = [i \in 1 .. completed |-> NewCheckIn(i, UserId, HuntId, i)]
    /\ dbConditions = {}
    /\ dbPlayerHunts = <<NewPlayerHunt(1, UserId, HuntId)>>
    /\ faultsLeft = 0
    /\ InitScreens

SpecLastCheckpoint == InitLastCheckpoint /\ [][NextProgress]_vars

\* ================================================================= claims
\* The check-in documents of the collection for a (user, hunt, location) triple.
CheckInsOf(userId, huntId, l) ==
    { i \in DOMAIN dbCheckIns : /\ dbCheckIns[i].userId = userId
                                /\ dbCheckIns[i].huntId = huntId
                                /\ dbCheckIns[i].locationId = l }

\* The playerHunts documents of a (user, hunt) pair.
PlayerHuntsOf(userId, huntId) ==
    { i \in DOMAIN dbPlayerHunts : /\ dbPlayerHunts[i].userId = userId
                                   /\ dbPlayerHunts[i].huntId = huntId }

\* C1: whatever the interleaving of concurrent createCheckIn calls, the
\* checkIns collection never holds more than one document for one
\* (userId, huntId, locationId). Two devices that both read "no check-in"
\* before either adds its document refute it.
C1_AtMostOneCheckInPerTriple ==
    \A l \in LocIds : Cardinality(CheckInsOf(UserId, HuntId, l)) <= 1

\* C2: with createCheckIn calls one after the other, the collection holds at
\* most one document per triple, and a call made while a document exists for
\* its triple ends in the handler's catch with checkIns and playerHunts as they
\* were; unless the read itself failed, what it threw is the already-checked-in
\* error.
C2_SecondCheckInRejected ==
    /\ [](\A l \in LocIds : Cardinality(CheckInsOf(UserId, HuntId, l)) <= 1)
    /\ [][\A s \in Sessions : \A l \in LocIds :
            (handleCheckIn(s, l) /\ CheckInsOf(UserId, HuntId, l) # {})
            => /\ pc'[s] = "idle"
               /\ alert'[s] = "Failed to check in. Please try again."
               /\ error'[s] \in {"Already checked in to this location", "storage"}
               /\ faultsLeft' = faultsLeft
                    => error'[s] = "Already checked in to this location"
               /\ dbCheckIns' = dbCheckIns
               /\ dbPlayerHunts' = dbPlayerHunts]_vars

\* C2's case: a second call was rejected and one document is there.
C2_Witness ==
    \E s \in Sessions :
       /\ error[s] = "Already checked in to this location"
       /\ pc[s] = "idle"
       /\ Cardinality(CheckInsOf(UserId, HuntId, "A")) = 1
       /\ Len(dbCheckIns) = 1

\* C3: whatever the interleaving of two concurrent startPlayerHunt calls, the
\* playerHunts collection holds at most one document for the (userId, huntId)
\* pair (at most one call succeeds). Two devices that both read "no player
\* hunt" before either adds its document refute it.
C3_AtMostOnePlayerHuntPerPair ==
    Cardinality(PlayerHuntsOf(UserId, HuntId)) <= 1

\* The status of the playerHunts document with the given id, NoVal without one.
StatusOf(hunts, id) ==
    IF \E i \in DOMAIN hunts : hunts[i].playerHuntId = id
      THEN (CHOOSE d \in { hunts[i] : i \in DOMAIN hunts } : d.playerHuntId = id).status
      ELSE NoVal

\* C4: a playerHunts document whose status is COMPLETED or ABANDONED keeps
\* that status in every step.
C4_TerminalStatusIsFinal ==
    [][\A i \in DOMAIN dbPlayerHunts :
          dbPlayerHunts[i].status \in {"COMPLETED", "ABANDONED"}
          => StatusOf(dbPlayerHunts', dbPlayerHunts[i].playerHuntId)
                = dbPlayerHunts[i].status]_vars

\* The locations of the hunt the player has no check-in document for.
Unchecked == { l \in dbLocations : CheckInsOf(UserId, HuntId, l) = {} }

\* C5: a step that writes COMPLETED to a playerHunts document is a step of
\* handleCheckIn, taken only when every location of the hunt has a check-in
\* of the player.
C5_CompletedOnlyWhenAllCheckedIn ==
    [][\A i \in DOMAIN dbPlayerHunts :
          (/\ dbPlayerHunts[i].status # "COMPLETED"
           /\ StatusOf(dbPlayerHunts', dbPlayerHunts[i].playerHuntId) = "COMPLETED")
          => /\ \E s \in Sessions : checkInComplete(s)
             /\ Unchecked = {}]_vars

\* C6: no state has a hunt of N >= 1 locations that are all checked in, no
\* handleCheckIn running, and a playerHunts document still STARTED.
C6_AllCheckedInIsCompleted ==
    ~ (/\ dbLocations # {}
       /\ Unchecked = {}
       /\ \A s \in Sessions : pc[s] \in {"closed", "idle"}
       /\ \E i \in DOMAIN dbPlayerHunts : dbPlayerHunts[i].status = "STARTED")

\* C7: a step that adds a check-in document is taken only while a STARTED
\* playerHunts document exists for the pair.
C7_CheckInOnlyWhileStarted ==
    [][Len(dbCheckIns') > Len(dbCheckIns)
         => \E i \in PlayerHuntsOf(UserId, HuntId) :
               dbPlayerHunts[i].status = "STARTED"]_vars

\* A location is reachable at local time t as its stored conditions say: every
\* required location has a check-in document, and t lies in every window (the
\* stored UTC times taken back to the local times the owner entered).
Reachable(l, t) ==
    \A c \in { d \in dbConditions : d.locationId = l } :
       /\ c.type = "REQUIRED_LOCATION" =>
             CheckInsOf(UserId, HuntId, c.requiredLocationId) # {}
       /\ c.type = "TIME_WINDOW" =>
             /\ convertUTCTimeToLocal(c.startTime) <= t
             /\ t <= convertUTCTimeToLocal(c.endTime)

\* C8: a step that adds a check-in document adds it for a location that is
\* reachable at the time of the step.
C8_CheckInOnlyWhenReachable ==
    [][Len(dbCheckIns') > Len(dbCheckIns)
         => Reachable(dbCheckIns'[Len(dbCheckIns')].locationId, now)]_vars

\* C9: when getLocationConditions throws inside loadLocationConditions, no
\* location whose stored conditions are unmet is available on the screen that
\* the load leaves.
C9_FailedLoadNotAvailable ==
    [][\A s \in Sessions :
          (loadLocationConditions(s) /\ faultsLeft' < faultsLeft)
          => \A l \in locations[s] :
                ~ Reachable(l, now) => ~ isLocationAvailable(s, l, now)']_vars

\* C10: a handleCheckIn that ends by alerting a failure leaves the checkIns
\* and playerHunts collections as they were when it was called.
C10_FailedCheckInWritesNothing ==
    [][\A s \in Sessions :
          (/\ pc[s] \in {"ci_write", "ci_prog", "ci_status"}
           /\ pc'[s] = "idle"
           /\ alert'[s] \in {"Too Far", "Failed to check in. Please try again."})
          => <<dbCheckIns', dbPlayerHunts'>> = atPress[s]]_vars

\* The STARTED playerHunts documents of a (user, hunt) pair.
StartedOf(userId, huntId) ==
    { i \in PlayerHuntsOf(userId, huntId) : dbPlayerHunts[i].status = "STARTED" }

\* C11: with start, check-in and abandon handlers running one after the other,
\* the playerHunts collection holds at most one STARTED document per pair, and
\* a start made while a STARTED document exists ends in the handler's catch
\* without adding a document; unless the read itself failed, what it threw is
\* the already-started error.
C11_AtMostOneStartedPerPair ==
    /\ [](Cardinality(StartedOf(UserId, HuntId)) <= 1)
    /\ [][\A s \in Sessions :
            /\ (handleStartHunt(s) /\ StartedOf(UserId, HuntId) # {})
                => /\ pc'[s] = "idle"
                   /\ alert'[s] = "Failed to start hunt. Please try again."
                   /\ faultsLeft' = faultsLeft
                        => error'[s] = "Hunt already started by this player"
                   /\ dbPlayerHunts' = dbPlayerHunts
            /\ (startPlayerHunt(s) /\ StartedOf(UserId, HuntId) # {})
                => dbPlayerHunts' = dbPlayerHunts]_vars

\* C11's case: a start was rejected while the pair's one document is STARTED.
C11_Witness ==
    \E s \in Sessions :
       /\ error[s] = "Hunt already started by this player"
       /\ pc[s] = "idle"
       /\ Cardinality(StartedOf(UserId, HuntId)) = 1

\* C12: a start made while the pair has no STARTED document (none at all, or
\* only COMPLETED or ABANDONED ones) is not rejected: unless the read fails,
\* startPlayerHunt goes on to add the STARTED document.
C12_StartRejectedOnlyWhileStarted ==
    [][\A s \in Sessions :
          (/\ handleStartHunt(s)
           /\ StartedOf(UserId, HuntId) = {}
           /\ faultsLeft' = faultsLeft)
          => pc'[s] = "st_write"]_vars

\* The first check-in precondition that fails for location l on device s, in
\* the order hunt started, checkpoint available, not already checked in,
\* within 50 m; "none" when all hold.
FirstFailing(s, l) ==
    IF StartedOf(UserId, HuntId) = {} THEN "HuntNotStarted"
    ELSE IF ~ Reachable(l, now) THEN "CheckpointLocked"
    ELSE IF CheckInsOf(UserId, HuntId, l) # {} THEN "AlreadyCheckedIn"
    ELSE IF \/ userLocation[s] = NoPosition
            \/ calculateDistance(userLocation[s], LocPos(l)) > 50 * 10
      THEN "TooFar"
    ELSE "none"

\* What handleCheckIn decided on device s: it goes on to the write, or names
\* the precondition it rejected the attempt for.
Outcome(s) ==
    IF pc[s] = "ci_write" THEN "none"
    ELSE IF alert[s] = "Too Far" THEN "TooFar"
    ELSE IF error[s] = "Already checked in to this location" THEN "AlreadyCheckedIn"
    ELSE "other"

\* C13: the outcome of a check-in attempt whose reads do not fail is decided
\* by the first failing precondition in the order hunt started, checkpoint
\* available, not already checked in, within 50 m.
C13_FirstFailingPreconditionDecides ==
    [][\A s \in Sessions : \A l \in LocIds :
          (handleCheckIn(s, l) /\ faultsLeft' = faultsLeft)
          => Outcome(s)' = FirstFailing(s, l)]_vars

\* C14: on either screen, at every moment, the proximity check of a location
\* passes exactly when the player's position is known and its distance to
\* the location is at most 50 m.
C14_NearIffWithin50m ==
    \A s \in Sessions : \A l \in locations[s] :
       isUserNearLocation(s, l)
       <=> /\ userLocation[s] # NoPosition
           /\ calculateDistance(userLocation[s], LocPos(l)) <= 50 * 10

\* C15: when B's only condition requires A, a screen that shows B does not
\* show it Available while the player has no check-in for A, and shows it
\* Available once a check-in at A has ended with its reload done.
C15_RequiredLocationGates ==
    \A s \in Sessions :
       (/\ dbConditions =
              { NewCondition(1, "B", "REQUIRED_LOCATION", "A", NoTime, NoTime) }
        /\ pc[s] = "idle" /\ hunt[s] # NoVal /\ "B" \in locations[s])
       => /\ CheckInsOf(UserId, HuntId, "A") = {}
               => ~ isLocationAvailable(s, "B", renderedAt[s])
          /\ (/\ alert[s] = "Location completed!"
              /\ CheckInsOf(UserId, HuntId, "A") # {})
               => isLocationAvailable(s, "B", renderedAt[s])

\* The local times of day the screen is evaluated at: every half hour, and the
\* minutes next to it.
TimesOfDay == { m \in 0 .. (MinutesPerDay - 1) : m % 30 \in {0, 1, 29} }

LoadedB(s) ==
    /\ pc[s] = "idle"
    /\ "B" \in locations[s]
    /\ "B" \in DOMAIN locationConditions[s]
    /\ locationConditions[s]["B"] = getLocationConditions("B")

\* B's only condition is the window the owner authored as start - end, local.
WindowOnB(start, end) ==
    dbConditions = { NewCondition(1, "B", "TIME_WINDOW", NoVal, start, end) }

\* C17: for the TIME_WINDOW condition authored as 09:00 - 17:00 local, in every
\* time zone, the screen that loaded it through createCondition ->
\* getLocationConditions finds the checkpoint available at local minute t if
\* and only if 09:00 <= t <= 17:00 (so at 09:00, 10:00 and 17:00 and not at
\* 08:00 or 18:00).
C17_WindowInclusiveInLocalTime ==
    \A s \in Sessions :
       (WindowOnB(OfficeStart, OfficeEnd) /\ LoadedB(s))
          => \A t \in TimesOfDay :
                isLocationAvailable(s, "B", t) <=> (OfficeStart <= t /\ t <= OfficeEnd)
\* C18: for the TIME_WINDOW condition authored as 22:00 - 02:00 local (its end
\* is earlier than its start: the window crosses midnight), in every time
\* zone, the screen that loaded it finds the checkpoint unavailable at every
\* minute of the day.
C18_MidnightWindowNeverAvailable ==
    \A s \in Sessions :
       (WindowOnB(NightStart, NightEnd) /\ LoadedB(s))
          => \A t \in TimesOfDay : ~ isLocationAvailable(s, "B", t)
\* C19: in every state of the store getHuntProgress returns total = the number
\* of checkpoints currently in the hunt and completed = the number of distinct
\* checkpoints of the hunt the player has a check-in for (duplicate check-ins
\* and check-ins of deleted checkpoints are not counted).
C19_ProgressCountsDistinctCurrentCheckpoints ==
    LET result == getHuntProgress(UserId, HuntId)
    IN  /\ result.total = Cardinality(dbLocations)
        /\ result.completed =
              Cardinality({ l \in dbLocations : CheckInsOf(UserId, HuntId, l) # {} })
\* The integer nearest to n / d, a half rounds up (n >= 0, d > 0).
HalfUp(n, d) == (2 * n + d) \div (2 * d)

\* C20: the result getHuntProgress returned to the screen has percentage =
\* completed / total * 100 rounded to the nearest integer (a half rounds up)
\* when total > 0, and percentage = 0 when total = 0.
C20_PercentageRoundsHalfUp ==
    \A s \in Sessions :
       LET result == progress[s]
       IN  /\ result.total > 0
                => result.percentage = HalfUp(100 * result.completed, result.total)
           /\ result.total = 0 => result.percentage = 0
\* The screen of a device shows its hunt (it is not loading).
Shown(s) == pc[s] \in {"idle", "ci_prog", "ci_status"} /\ hunt[s] # NoVal

C22_ContainmentAfterDelete ==
    (\A o \in OwnerSessions : owner[o].pc \notin {"del_locs", "del_doc"}) =>
       /\ \A c \in dbConditions : c.locationId \in dbLocations
       /\ dbLocations # {} => getHuntById(HuntId) # NoHunt
\* The user of a session does not own a stored hunt with that id.
NotOwnerOf(o, huntId) ==
    ~ \E h \in dbHunts : h.id = huntId /\ h.userId = owner[o].user

\* The call failed with an error and no collection changed.
Refused(o) ==
    /\ owner'[o].alert = "Error"
    /\ owner'[o].pc = owner[o].pc \/ owner'[o].pc = "detail"
    /\ UNCHANGED <<dbHunts, dbLocations, dbConditions>>

\* C23: a call of updateHuntName, updateHuntVisibility or deleteHunt by a
\* user who does not own the hunt, or for an id that is not stored, ends in
\* an error and changes no hunt, location or condition; a hunt document is
\* changed or removed only by a step of a session of its owner.
C23_OnlyOwnerChangesHunt ==
    [][/\ \A o \in OwnerSessions :
            /\ (saveEdit(o) /\ NotOwnerOf(o, owner[o].hunt.id)) => Refused(o)
            /\ (confirmDeleteHunt(o) /\ NotOwnerOf(o, owner[o].hunt.id)) => Refused(o)
            /\ \A huntId \in HuntIds : \A v \in BOOLEAN :
                  (handleVisibilityToggle(o, huntId, v) /\ NotOwnerOf(o, huntId))
                     => Refused(o)
       /\ \A h \in dbHunts :
            h \notin dbHunts' =>
               \E o \in OwnerSessions :
                  /\ owner[o].user = h.userId
                  /\ \/ saveEdit(o)
                     \/ deleteHunt(o)
                     \/ \E v \in BOOLEAN : handleVisibilityToggle(o, h.id, v)]_vars

\* The player, signed in on the second device, has tried to rename the
\* owner's hunt: an error, and the hunt is as it was.
C23_Witness ==
    /\ owner["o2"].user = UserId
    /\ owner["o2"].pc = "detail"
    /\ owner["o2"].hunt = PlayedHunt
    /\ owner["o2"].name # PlayedHunt.name
    /\ owner["o2"].alert = "Error"
    /\ dbHunts = {PlayedHunt}
\* C24: no two hunt documents of one user carry the same name.
C24_NameUniquePerUser ==
    \A h \in dbHunts : \A g \in dbHunts :
       (h.userId = g.userId /\ h.name = g.name) => h = g
\* C25: every REQUIRED_LOCATION condition names a stored location of the
\* hunt other than its own.
C25_RequiredLocationExists ==
    \A c \in dbConditions :
       c.type = "REQUIRED_LOCATION" =>
          /\ c.requiredLocationId \in dbLocations
          /\ c.requiredLocationId # c.locationId
\* The stored conditions make A require B and B require A.
Cycle ==
    /\ {"A", "B"} \subseteq dbLocations
    /\ \A p \in {<<"A", "B">>, <<"B", "A">>} : \E c \in dbConditions :
          /\ c.locationId = p[1]
          /\ c.type = "REQUIRED_LOCATION"
          /\ c.requiredLocationId = p[2]

C27_HundredIffAllCheckedIn ==
    \A s \in Sessions :
       LET result == progress[s]
       IN  (result.total >= 1 /\ result.completed <= result.total) =>
              (result.percentage = 100 <=> result.completed = result.total)
\* C28: the progress getHuntProgress returns for the player has
\* 0 <= completed <= total and 0 <= percentage <= 100.
C28_ProgressWithinRange ==
    LET result == getHuntProgress(UserId, HuntId)
    IN  /\ 0 <= result.completed /\ result.completed <= result.total
        /\ 0 <= result.percentage /\ result.percentage <= 100
\* C29: while no handler of a screen is running, the PlayerHunt the screen
\* holds is the stored one, with the stored status (none when none is
\* stored); in particular the screen does not hold STARTED, and offer
\* Abandon, for a PlayerHunt stored as COMPLETED.
C29_ScreenStatusIsStored ==
    \A s \in Sessions :
       (pc[s] = "idle" /\ hunt[s] # NoVal) =>
          /\ playerHunt[s].playerHuntId = getPlayerHunt(UserId, HuntId).playerHuntId
          /\ playerHunt[s].status = getPlayerHunt(UserId, HuntId).status
          /\ canAbandon(s) => getPlayerHunt(UserId, HuntId).status = "STARTED"
====
